---- MODULE Spec2Model ----
(***************************************************************************)
(* Model of the ingestion orchestrators of azure-kusto-go:                 *)
(*   kusto/ingest/ingest.go   getManager, New, Ingestion (queued           *)
(*                            FromFile/FromReader, Stream, getStreamConn)  *)
(*   unnamed/part_000         StreamingIngestion (FromFile, FromReader),   *)
(*                            streamImpl                                   *)
(* Packages the two files import (properties, filesystem, resources, conn, *)
(* errors, the FileOption implementations, Result) are collaborators; they *)
(* are modelled by their contracts.                                        *)
(***************************************************************************)
EXTENDS Integers, Sequences, FiniteSets, TLC

\* ------------------------------------------------------------------ bounds
MaxOptions == 2       \* longest option list of one call
MaxUUID == 2          \* distinct non-nil UUIDs (caller-supplied or generated)
MaxTables == 1        \* most status-table resources in a Manager snapshot
NumProcs == 2         \* concurrent goroutines
MaxConns == 3         \* cap on connections ever constructed (conn.New successes)
MaxManagers == 2      \* cap on Managers ever constructed (resources.New successes)
NumClients == 2       \* distinct backend clients

\* Backend ceiling for a streamed payload: 4 MiB.
StreamCeiling == 4194304

Procs == 1..NumProcs

\* ------------------------------------------------------------------ errors
\* An error is a chain of layers, outermost first; nil is the empty chain.
NoError == << >>

Layer(op, kind, msg) == [op |-> op, kind |-> kind, msg |-> msg]

\* fmt.Errorf(msg)
Errorf(msg) == << Layer("", "", msg) >>

\* errors.ES(op, kind, msg)
ES(op, kind, msg) == << Layer(op, kind, msg) >>

\* errors.E(op, kind, err): err wrapped under an operation tag and a kind.
E(op, kind, err) == << Layer(op, kind, "") >> \o err

\* The innermost layer of a non-nil error.
Cause(err) == err[Len(err)]

\* context.Canceled, as returned by a collaborator given a cancelled context.
ErrCanceled == << Layer("", "Canceled", "context canceled") >>
ErrAuth == << Layer("OpMgmt", "KHTTPError", "identity token query failed") >>
ErrResources == << Layer("OpServConn", "KInternal", "manager has not retrieved resources") >>
ErrStaging == << Layer("OpFileIngest", "KBlobstore", "upload failed") >>
ErrTooLarge == << Layer("OpIngestStream", "KHTTPError", "payload too large") >>
ErrBadPath == << Layer("OpFileIngest", "KLocalFileSystem", "path is neither local nor a blobstore URI") >>
ErrOpen == << Layer("open", "", "no such file or directory") >>
ErrConnNew == << Layer("OpServConn", "KClientArgs", "could not parse the endpoint") >>
ErrMgrNew == << Layer("OpServConn", "KInternal", "could not fetch resources") >>
ErrNoFormat == Errorf("must provide option FileFormat() when using FromReader()")
ErrNoStatusTable == Errorf("User requested reporting status to table, yet status table resource URI is not found")
ErrNotLocal == ES("OpFileIngest", "KClientArgs", "blobstore paths are not supported for streaming")
ErrOption(name) == ES("OpFileIngest", "KClientArgs", name)

\* ------------------------------------------------------------------- UUIDs
\* uuid.Nil is 0; the other UUIDs are 1..MaxUUID.
UUIDNil == 0
UUIDs == 1..MaxUUID

\* uuid.UUID.String()
UUIDString(u) ==
    CASE u = 0 -> "00000000-0000-0000-0000-000000000000"
      [] u = 1 -> "00000000-0000-4000-8000-000000000001"
      [] u = 2 -> "00000000-0000-4000-8000-000000000002"
      [] u = 3 -> "00000000-0000-4000-8000-000000000003"
      [] OTHER -> "00000000-0000-4000-8000-00000000ffff"

\* ------------------------------------------------------------ property set
\* properties.All with the zero value of every field newProp leaves out.
ZeroProps ==
    [ DatabaseName |-> "", TableName |-> "", RetainBlobOnSuccess |-> FALSE,
      ReportLevel |-> "FailuresOnly", ReportMethod |-> "ReportStatusToQueue",
      TableConnectionString |-> "", PartitionKey |-> "", RowKey |-> "",
      Format |-> "DFUnknown", IngestionMappingRef |-> "", AuthContext |-> "",
      ShouldCompress |-> FALSE, ClientRequestId |-> "", SourceID |-> UUIDNil ]

DB == "db"
Table == "table"
AuthToken == "token"

\* (*Ingestion).newProp
newProp(auth) ==
    [ZeroProps EXCEPT !.DatabaseName = DB, !.TableName = Table,
                      !.RetainBlobOnSuccess = TRUE, !.AuthContext = auth]

\* (*StreamingIngestion).newProp
newPropStreaming ==
    [ZeroProps EXCEPT !.DatabaseName = DB, !.TableName = Table]

\* ---------------------------------------------------------------- options
\* A FileOption value. Every option carries every field; `name` says which
\* one it sets.
Opt(name, fmt, level, method, id, req) ==
    [name |-> name, fmt |-> fmt, level |-> level, method |-> method,
     id |-> id, req |-> req]

FileFormat(f) == Opt("FileFormat", f, "", "", UUIDNil, "")
Report(level, method) == Opt("Report", "", level, method, UUIDNil, "")
SourceID(u) == Opt("SourceID", "", "", "", u, "")
ClientRequestId(r) == Opt("ClientRequestId", "", "", "", UUIDNil, r)

OptionSet ==
    {FileFormat("CSV"), ClientRequestId("req-1")}
    \cup {Report("None", "ReportStatusToQueue"),
          Report("None", "ReportStatusToTable"),
          Report("FailureAndSuccess", "ReportStatusToTable"),
          Report("FailureAndSuccess", "ReportStatusToQueueAndTable")}
    \cup {SourceID(u) : u \in UUIDs}

\* Option lists of a call: every sequence of at most MaxOptions options.
OptionLists == UNION {[1..n -> OptionSet] : n \in 0..MaxOptions}

\* Mutant of Flags: the queued and streaming arguments change places.
Flags_SwapPath(isFile, isBlob, isReader, queued, streaming) ==
    [isFile |-> isFile, isBlob |-> isBlob, isReader |-> isReader,
     queued |-> streaming, streaming |-> queued]

Flags(isFile, isBlob, isReader, queued, streaming) ==
    [isFile |-> isFile, isBlob |-> isBlob, isReader |-> isReader,
     queued |-> queued, streaming |-> streaming]

\* The modes an option supports: status reporting belongs to queued ingestion,
\* the client request id to streaming; the others apply everywhere.
OptionSupports(o, f) ==
    CASE o.name = "Report" -> f.queued
      [] o.name = "ClientRequestId" -> f.streaming
      [] OTHER -> TRUE

\* FileOption.Run(&props, isFile, isBlob, isReader, queued, streaming): an
\* argument error outside the option's modes, else the fields it owns are set.
OptionRun(o, props, f) ==
    IF ~OptionSupports(o, f)
    THEN [props |-> props, err |-> ErrOption(o.name)]
    ELSE [props |->
            CASE o.name = "FileFormat" -> [props EXCEPT !.Format = o.fmt]
              [] o.name = "Report" ->
                   [props EXCEPT !.ReportLevel = o.level, !.ReportMethod = o.method]
              [] o.name = "SourceID" -> [props EXCEPT !.SourceID = o.id]
              [] o.name = "ClientRequestId" -> [props EXCEPT !.ClientRequestId = o.req]
              [] OTHER -> props,
          err |-> NoError]

\* Mutant of RunOptions: an option's error is dropped and the loop goes on.
RECURSIVE RunOptions_IgnoreErrors(_, _, _, _)
RunOptions_IgnoreErrors(props, options, f, runs) ==
    IF options = << >>
    THEN [props |-> props, err |-> NoError, runs |-> runs]
    ELSE RunOptions_IgnoreErrors(OptionRun(Head(options), props, f).props,
                                 Tail(options), f,
                                 Append(runs, [opt |-> Head(options), flags |-> f]))

\* for _, o := range options { if err := o.Run(...); err != nil { return err } }
\* `runs` records every invocation of Run with the flags it was given.
RECURSIVE RunOptions(_, _, _, _)
RunOptions(props, options, f, runs) ==
    IF options = << >>
    THEN [props |-> props, err |-> NoError, runs |-> runs]
    ELSE LET r == OptionRun(Head(options), props, f)
             ran == Append(runs, [opt |-> Head(options), flags |-> f])
         IN IF r.err # NoError
            THEN [props |-> r.props, err |-> r.err, runs |-> ran]
            ELSE RunOptions(r.props, Tail(options), f, ran)

\* ------------------------------------------------------------------ Result
\* A *Result is << >> (nil) or a one-element sequence holding the value.
NilResult == << >>

newResult ==
    [props |-> ZeroProps, IngestionSourcePath |-> "", Status |-> "",
     queued |-> FALSE]

putProps(result, props) == [result EXCEPT !.props = props]

ReportsToTable(props) ==
    /\ props.ReportLevel # "None"
    /\ props.ReportMethod \in {"ReportStatusToTable", "ReportStatusToQueueAndTable"}

\* (*Result).putQueued(mgr): the Result is marked queued, with the status-table
\* polling hint when the status is reported to a table.
putQueued(result) ==
    [result EXCEPT !.queued = TRUE,
                   !.Status = IF ReportsToTable(result.props) THEN "Pending" ELSE "Queued"]

\* ------------------------------------------------------------ collaborators
LocalPaths == {"local.csv", "local.csv.gz", "local.zip", "local"}
BlobPaths == {"https://account.blob.core.windows.net/container/blob.csv"}
BadPaths == {"missing.csv"}
Paths == LocalPaths \cup BlobPaths \cup BadPaths

\* filesystem.IsLocalPath(fPath)
IsLocalPath(fPath) ==
    [local |-> fPath \in LocalPaths,
     err |-> IF fPath \in BadPaths THEN ErrBadPath ELSE NoError]

\* filesystem.CompressionDiscovery(fPath)
CompressionDiscovery(fPath) ==
    CASE fPath = "local.csv.gz" -> "GZIP"
      [] fPath = "local.zip" -> "ZIP"
      [] fPath = "local" -> "CTUnknown"
      [] OTHER -> "CTNone"

\* (*resources.Manager).AuthContext(ctx): the identity token, or an error; with
\* a cancelled context the error is the cancellation.
AuthContext(ctxDone, ok) ==
    IF ok THEN [auth |-> AuthToken, err |-> NoError]
    ELSE [auth |-> "", err |-> IF ctxDone THEN ErrCanceled ELSE ErrAuth]

\* (*resources.Manager).Resources(): the current snapshot, here its number of
\* status tables, or an error.
Resources(nTables, ok) ==
    IF ok THEN [Tables |-> nTables, err |-> NoError]
    ELSE [Tables |-> 0, err |-> ErrResources]

TableURL(k) == "https://account.table.core.windows.net/status0"

\* filesystem.Ingestion.Local / Blob / Reader: a blocking staging (upload and
\* enqueue) call. A cancelled context aborts it with the cancellation error.
Staging(ctxDone, ok) ==
    IF ctxDone THEN ErrCanceled ELSE IF ok THEN NoError ELSE ErrStaging

ReaderPath == "https://account.blob.core.windows.net/container/reader.gz"

\* (*conn.Conn).Write: a cancelled context aborts the write; the backend
\* rejects a payload at or above the ceiling.
ConnWrite(ctxDone, size) ==
    IF ctxDone THEN ErrCanceled
    ELSE IF size >= StreamCeiling THEN ErrTooLarge ELSE NoError

\* ------------------------------------------------------------ call outcome
\* What one entry-point call returned and what it did on the way:
\*   result, err   the returned pair
\*   prep          "" (prepForIngestion not called), "ok" or "failed"
\*   runs          the option invocations, in order
\*   staged        the staging calls (Local, Blob, Reader) with their arguments
\*   writes        the connection writes with their arguments and answer
\*   trace         the other collaborator calls, in order, with their success
Outcome(result, err, prep, runs, staged, writes, trace) ==
    [result |-> result, err |-> err, prep |-> prep, runs |-> runs,
     staged |-> staged, writes |-> writes, trace |-> trace]

Did(op, ok) == [op |-> op, ok |-> ok]

\* The environment of one queued call: what each collaborator answers if it
\* is asked, and the UUID uuid.New() would draw.
Envs == [authOK : BOOLEAN, resOK : BOOLEAN, newID : UUIDs, stageOK : BOOLEAN]

\* ------------------------------------------------------- prepForIngestion
\* Mutant of AssignSourceID: no correlation id is generated.
AssignSourceID_Never(props, newID) == props

\* if props.Source.ID == uuid.Nil { props.Source.ID = uuid.New() }
AssignSourceID(props, newID) ==
    IF props.SourceID = UUIDNil THEN [props EXCEPT !.SourceID = newID] ELSE props

\* Mutant of TargetsStatusTable: every report method is taken for a table one.
TargetsStatusTable_Always(props) == TRUE

\* case properties.ReportStatusToTable, properties.ReportStatusToQueueAndTable
TargetsStatusTable(props) ==
    props.ReportMethod \in {"ReportStatusToTable", "ReportStatusToQueueAndTable"}

\* Mutant of NoStatusTable: the empty snapshot is not detected.
NoStatusTable_Never(r) == FALSE

\* if len(managerResources.Tables) == 0
NoStatusTable(r) == r.Tables = 0

\* The three assignments to props.Ingestion.TableEntryRef.
SetTableEntryRef(props, url) ==
    [props EXCEPT !.TableConnectionString = url,
                  !.PartitionKey = UUIDString(props.SourceID),
                  !.RowKey = UUIDString(UUIDNil)]

PrepFail(err, runs, trace) ==
    [result |-> NilResult, props |-> ZeroProps, err |-> err, runs |-> runs,
     trace |-> trace]

PrepOK(props, runs, trace) ==
    [result |-> << putProps(newResult, props) >>, props |-> props,
     err |-> NoError, runs |-> runs, trace |-> trace]

\* The reporting block of prepForIngestion, after the options have run.
PrepReporting(props, runs, nTables, env) ==
    IF props.ReportLevel # "None"
    THEN LET p1 == AssignSourceID(props, env.newID)
         IN IF TargetsStatusTable(p1)
            THEN LET r == Resources(nTables, env.resOK)
                     t == << Did("AuthContext", TRUE), Did("Resources", env.resOK) >>
                 IN IF r.err # NoError THEN PrepFail(r.err, runs, t)
                    ELSE IF NoStatusTable(r) THEN PrepFail(ErrNoStatusTable, runs, t)
                    ELSE PrepOK(SetTableEntryRef(p1, TableURL(0)), runs, t)
            ELSE PrepOK(p1, runs, << Did("AuthContext", TRUE) >>)
    ELSE PrepOK(props, runs, << Did("AuthContext", TRUE) >>)

\* (*Ingestion).prepForIngestion
prepForIngestion(ctxDone, options, isFile, isBlob, isReader, nTables, env) ==
    LET a == AuthContext(ctxDone, env.authOK)
    IN IF a.err # NoError
       THEN PrepFail(a.err, << >>, << Did("AuthContext", FALSE) >>)
       ELSE LET o == RunOptions(newProp(a.auth), options,
                                Flags(isFile, isBlob, isReader, TRUE, FALSE), << >>)
            IN IF o.err # NoError
               THEN PrepFail(o.err, o.runs, << Did("AuthContext", TRUE) >>)
               ELSE PrepReporting(o.props, o.runs, nTables, env)

\* ------------------------------------------------------ queued entry points
\* One staging call: its arguments and the error it returned.
StagingCall(op, path, props, err) ==
    [op |-> op, path |-> path, props |-> props, err |-> err]

\* The tail of queued FromFile and FromReader: a staging error is returned
\* with no Result, else the Result is marked queued.
\* Mutant of QueuedReturn: the Result is marked queued and returned whatever
\* staging returned.
QueuedReturn_AlwaysQueued(result, path, err, runs, staged, trace) ==
    Outcome(<< putQueued([result EXCEPT !.IngestionSourcePath = path]) >>,
            err, "ok", runs, staged, << >>, trace)

QueuedReturn(result, path, err, runs, staged, trace) ==
    IF err # NoError
    THEN Outcome(NilResult, err, "ok", runs, staged, << >>, trace)
    ELSE Outcome(<< putQueued([result EXCEPT !.IngestionSourcePath = path]) >>,
                 NoError, "ok", runs, staged, << >>, trace)

\* (*Ingestion).FromFile
IngestionFromFile(ctxDone, fPath, options, nTables, env) ==
    LET l == IsLocalPath(fPath)
    IN IF l.err # NoError
       THEN Outcome(NilResult, l.err, "", << >>, << >>, << >>,
                    << Did("IsLocalPath", FALSE) >>)
       ELSE LET p == prepForIngestion(ctxDone, options, l.local, ~l.local, FALSE,
                                      nTables, env)
                t == << Did("IsLocalPath", TRUE) >> \o p.trace
            IN IF p.err # NoError
               THEN Outcome(NilResult, p.err, "failed", p.runs, << >>, << >>, t)
               ELSE QueuedReturn(p.result[1], fPath, Staging(ctxDone, env.stageOK),
                                 p.runs,
                                 << StagingCall(IF l.local THEN "Local" ELSE "Blob",
                                                fPath, p.props,
                                                Staging(ctxDone, env.stageOK)) >>,
                                 t)

\* Mutant of FormatMissing: the format check is left out.
FormatMissing_Never(props) == FALSE

\* if props.Ingestion.Additional.Format == DFUnknown { return nil, fmt.Errorf(...) }
FormatMissing(props) == props.Format = "DFUnknown"

\* (*Ingestion).FromReader
IngestionFromReader(ctxDone, options, nTables, env) ==
    LET p == prepForIngestion(ctxDone, options, FALSE, FALSE, TRUE, nTables, env)
    IN IF p.err # NoError
       THEN Outcome(NilResult, p.err, "failed", p.runs, << >>, << >>, p.trace)
       ELSE IF FormatMissing(p.props)
       THEN Outcome(NilResult, ErrNoFormat, "ok", p.runs, << >>, << >>, p.trace)
       ELSE QueuedReturn(p.result[1], ReaderPath, Staging(ctxDone, env.stageOK),
                         p.runs,
                         << StagingCall("Reader", "", p.props,
                                        Staging(ctxDone, env.stageOK)) >>,
                         p.trace)

\* -------------------------------------------------------------- streamImpl
\* One c.Write call: its arguments and the error it returned. gzip says
\* whether the payload handed to it is the gzip encoder wrapped around the
\* caller's payload.
WriteCall(c, ctxDone, size, props) ==
    [conn |-> c, ctxDone |-> ctxDone, size |-> size, gzip |-> props.ShouldCompress,
     db |-> DB, table |-> Table, format |-> props.Format,
     mappingRef |-> props.IngestionMappingRef,
     requestId |-> props.ClientRequestId,
     props |-> props, err |-> ConnWrite(ctxDone, size)]

\* Mutant of StreamWriteFailed: a failed write still yields a Success Result.
StreamWriteFailed_Success(w, runs, trace) ==
    Outcome(<< [putProps(newResult, w.props) EXCEPT !.Status = "Success"] >>,
            NoError, "", runs, << >>, << w >>, trace)

\* return nil, errors.E(errors.OpIngestStream, errors.KClientArgs, err)
StreamWriteFailed(w, runs, trace) ==
    Outcome(NilResult, E("OpIngestStream", "KClientArgs", w.err), "", runs, << >>,
            << w >>, trace)

\* Mutant of StreamWriteDone: the Result is marked queued, as on the queued path.
StreamWriteDone_Queued(w, runs, trace) ==
    Outcome(<< putQueued(putProps(newResult, w.props)) >>,
            NoError, "", runs, << >>, << w >>, trace)

\* result := newResult(); result.putProps(props); result.record.Status = "Success"
StreamWriteDone(w, runs, trace) ==
    Outcome(<< [putProps(newResult, w.props) EXCEPT !.Status = "Success"] >>,
            NoError, "", runs, << >>, << w >>, trace)

\* The part of streamImpl after c.Write has returned.
StreamImplReturn(w, runs, trace) ==
    IF w.err # NoError
    THEN StreamWriteFailed(w, runs, trace)
    ELSE StreamWriteDone(w, runs, trace)

\* Mutant of streamImpl: a failed write is made a second time.
streamImpl_Retry(c, ctxDone, size, props, runs, trace) ==
    IF WriteCall(c, ctxDone, size, props).err # NoError
    THEN [StreamImplReturn(WriteCall(c, ctxDone, size, props), runs, trace)
            EXCEPT !.writes = << WriteCall(c, ctxDone, size, props),
                                 WriteCall(c, ctxDone, size, props) >>]
    ELSE StreamImplReturn(WriteCall(c, ctxDone, size, props), runs, trace)

\* streamImpl(db, table, c, ctx, payload, props)
streamImpl(c, ctxDone, size, props, runs, trace) ==
    StreamImplReturn(WriteCall(c, ctxDone, size, props), runs, trace)

\* --------------------------------------------------- streaming entry points
\* Mutant of NotLocal: blobstore paths are let through.
NotLocal_Never(l) == FALSE

\* if !local { return nil, errors.ES(...) }
NotLocal(l) == ~l.local

\* discovery := filesystem.CompressionDiscovery(fPath)
\* if discovery != properties.CTUnknown && discovery != properties.CTNone {
\*     props.Streaming.ShouldCompress = true }
FileCompression(props, discovery) ==
    IF discovery # "CTUnknown" /\ discovery # "CTNone"
    THEN [props EXCEPT !.ShouldCompress = TRUE]
    ELSE props

\* props.Streaming.ShouldCompress = true
ReaderCompression(props) == [props EXCEPT !.ShouldCompress = TRUE]

\* (*StreamingIngestion).FromFile
StreamingFromFile(c, ctxDone, fPath, options, size, openOK) ==
    LET l == IsLocalPath(fPath)
    IN IF l.err # NoError
       THEN Outcome(NilResult, l.err, "", << >>, << >>, << >>,
                    << Did("IsLocalPath", FALSE) >>)
       ELSE IF NotLocal(l)
       THEN Outcome(NilResult, ErrNotLocal, "", << >>, << >>, << >>,
                    << Did("IsLocalPath", TRUE) >>)
       ELSE LET o == RunOptions(newPropStreaming, options,
                                Flags(TRUE, FALSE, FALSE, FALSE, TRUE), << >>)
            IN IF o.err # NoError
               THEN Outcome(NilResult, o.err, "", o.runs, << >>, << >>,
                            << Did("IsLocalPath", TRUE) >>)
               ELSE LET props == FileCompression(o.props, CompressionDiscovery(fPath))
                        t == << Did("IsLocalPath", TRUE),
                                Did("CompressionDiscovery", TRUE),
                                Did("Open", openOK) >>
                    IN IF ~openOK
                       THEN Outcome(NilResult, ErrOpen, "", o.runs, << >>, << >>, t)
                       ELSE streamImpl(c, ctxDone, size, props, o.runs, t)

\* (*StreamingIngestion).FromReader
StreamingFromReader(c, ctxDone, options, size) ==
    LET o == RunOptions(newPropStreaming, options,
                        Flags(FALSE, FALSE, TRUE, FALSE, TRUE), << >>)
    IN IF o.err # NoError
       THEN Outcome(NilResult, o.err, "", o.runs, << >>, << >>, << >>)
       ELSE streamImpl(c, ctxDone, size, ReaderCompression(o.props), o.runs, << >>)

\* The property set (*Ingestion).Stream builds.
StreamProps(format, mappingName) ==
    [ZeroProps EXCEPT !.DatabaseName = DB, !.TableName = Table,
                      !.Format = format, !.IngestionMappingRef = mappingName]

\* Mutant of StreamReturn: the error of streamImpl is dropped.
StreamReturn_Swallow(o) == [o EXCEPT !.result = NilResult, !.err = NoError]

\* _, err = streamImpl(...); return err
StreamReturn(o) == [o EXCEPT !.result = NilResult]

\* Mutant of GetStreamConn: the stored connection is not looked at.
GetStreamConn_NoCheck(stored, newOK, newConn) ==
    IF ~newOK
    THEN [conn |-> 0, err |-> ErrConnNew, streamConn |-> stored, built |-> FALSE]
    ELSE [conn |-> newConn, err |-> NoError, streamConn |-> newConn, built |-> TRUE]

\* Mutant of GetStreamConn: what conn.New returned is stored before its error
\* is looked at.
GetStreamConn_StoreFailed(stored, newOK, newConn) ==
    IF stored # 0
    THEN [conn |-> stored, err |-> NoError, streamConn |-> stored, built |-> FALSE]
    ELSE IF ~newOK
    THEN [conn |-> 0, err |-> ErrConnNew, streamConn |-> newConn, built |-> TRUE]
    ELSE [conn |-> newConn, err |-> NoError, streamConn |-> newConn, built |-> TRUE]

\* The body of getStreamConn under connMu: the stored connection if there is
\* one; else conn.New, whose connection (id newConn) is stored on success.
GetStreamConn(stored, newOK, newConn) ==
    IF stored # 0
    THEN [conn |-> stored, err |-> NoError, streamConn |-> stored, built |-> FALSE]
    ELSE IF ~newOK
    THEN [conn |-> 0, err |-> ErrConnNew, streamConn |-> stored, built |-> FALSE]
    ELSE [conn |-> newConn, err |-> NoError, streamConn |-> newConn, built |-> TRUE]

\* (*Ingestion).Stream, from what getStreamConn returned.
StreamWith(g, ctxDone, size, format, mappingName) ==
    IF g.err # NoError
    THEN Outcome(NilResult, g.err, "", << >>, << >>, << >>,
                 << Did("getStreamConn", FALSE) >>)
    ELSE StreamReturn(streamImpl(g.conn, ctxDone, size,
                                 StreamProps(format, mappingName), << >>,
                                 << Did("getStreamConn", TRUE) >>))

\* ------------------------------------------------------------------- state
VARIABLES
    tables,       \* status-table resources in the Manager's current snapshot
    streamConn,   \* Ingestion.streamConn: 0 is nil, else the connection's id
    sConn,        \* StreamingIngestion.streamConn, set by NewStreaming
    conns,        \* connections constructed so far; their ids are 1..conns
    ret,          \* << >>, or the one call that has just returned
    manager,      \* the package's atomic.Value: 0 is nil, else the Manager's id
    managerMu,    \* the package's mutex: 0 is free, else the goroutine holding it
    mgrs,         \* the Managers constructed so far: mgrs[id] is id's client
    gpc,          \* where each goroutine stands in New / getManager
    gloc,         \* its locals there: the client, and the Manager and error returned
    connMu,       \* Ingestion.connMu: 0 is free, else the goroutine holding it
    spc,          \* where each goroutine stands in a streaming call
    sloc          \* its locals there: the call, its connection and its error

callVars == << tables, ret >>
connVars == << streamConn, sConn, conns >>
mgrVars == << manager, managerMu, mgrs, gpc, gloc >>
concVars == << connMu, spc, sloc >>
vars == << tables, ret, streamConn, sConn, conns, manager, managerMu, mgrs, gpc,
           gloc, connMu, spc, sloc >>

Sizes == {0, StreamCeiling - 1, StreamCeiling, StreamCeiling + 1}
Formats == {"CSV", "JSON"}
MappingNames == {"", "mapping1"}

\* A returned call: the entry point, its arguments, the snapshot size it ran
\* against, and its outcome.
Call(entry, ctxDone, path, options, size, nTables, out) ==
    [entry |-> entry, ctxDone |-> ctxDone, path |-> path, options |-> options,
     size |-> size, nTables |-> nTables, out |-> out]

NoGLoc == [client |-> 0, mgr |-> 0, err |-> NoError]
NoSLoc == [entry |-> "", ctxDone |-> FALSE, size |-> 0, c |-> 0, err |-> NoError]

\* One Ingestion (no streaming connection yet) and one StreamingIngestion
\* (whose constructor built connection 1); no Manager stored yet; every
\* goroutine idle.
Init ==
    /\ tables \in 0..MaxTables
    /\ streamConn = 0
    /\ sConn = 1
    /\ conns = 1
    /\ ret = << >>
    /\ manager = 0
    /\ managerMu = 0
    /\ mgrs = << >>
    /\ gpc = [p \in Procs |-> "idle"]
    /\ gloc = [p \in Procs |-> NoGLoc]
    /\ connMu = 0
    /\ spc = [p \in Procs |-> "idle"]
    /\ sloc = [p \in Procs |-> NoSLoc]

\* The caller takes the returned pair; the next call can start.
Return ==
    /\ ret # << >>
    /\ ret' = << >>
    /\ UNCHANGED << tables, connVars, mgrVars, concVars >>

\* The Manager's background refresh replaces the snapshot wholesale.
Refresh ==
    /\ ret = << >>
    /\ \E n \in (0..MaxTables) \ {tables} : tables' = n
    /\ UNCHANGED << ret, connVars, mgrVars, concVars >>

QueuedFromFile ==
    /\ ret = << >>
    /\ \E ctxDone \in BOOLEAN, fPath \in Paths, options \in OptionLists, env \in Envs :
         ret' = << Call("Ingestion.FromFile", ctxDone, fPath, options, 0, tables,
                        IngestionFromFile(ctxDone, fPath, options, tables, env)) >>
    /\ UNCHANGED << tables, connVars, mgrVars, concVars >>

QueuedFromReader ==
    /\ ret = << >>
    /\ \E ctxDone \in BOOLEAN, options \in OptionLists, env \in Envs :
         ret' = << Call("Ingestion.FromReader", ctxDone, "", options, 0, tables,
                        IngestionFromReader(ctxDone, options, tables, env)) >>
    /\ UNCHANGED << tables, connVars, mgrVars, concVars >>

Stream ==
    /\ ret = << >>
    /\ \E ctxDone \in BOOLEAN, size \in Sizes, format \in Formats,
          mappingName \in MappingNames, newOK \in BOOLEAN :
         LET g == GetStreamConn(streamConn, newOK, conns + 1)
         IN /\ g.built => conns < MaxConns
            /\ streamConn' = g.streamConn
            /\ conns' = IF g.built THEN conns + 1 ELSE conns
            /\ ret' = << Call("Ingestion.Stream", ctxDone, "", << >>, size, tables,
                              StreamWith(g, ctxDone, size, format, mappingName)) >>
    /\ UNCHANGED << tables, sConn, mgrVars, concVars >>

StreamFromFile ==
    /\ ret = << >>
    /\ \E ctxDone \in BOOLEAN, fPath \in Paths, options \in OptionLists,
          size \in Sizes, openOK \in BOOLEAN :
         ret' = << Call("StreamingIngestion.FromFile", ctxDone, fPath, options, size,
                        tables,
                        StreamingFromFile(sConn, ctxDone, fPath, options, size, openOK)) >>
    /\ UNCHANGED << tables, connVars, mgrVars, concVars >>

StreamFromReader ==
    /\ ret = << >>
    /\ \E ctxDone \in BOOLEAN, options \in OptionLists, size \in Sizes :
         ret' = << Call("StreamingIngestion.FromReader", ctxDone, "", options, size,
                        tables, StreamingFromReader(sConn, ctxDone, options, size)) >>
    /\ UNCHANGED << tables, connVars, mgrVars, concVars >>

Next ==
    \/ QueuedFromFile
    \/ QueuedFromReader
    \/ Stream
    \/ StreamFromFile
    \/ StreamFromReader
    \/ Refresh
    \/ Return

Spec == Init /\ [][Next]_vars

\* ------------------------------------------------- New / getManager, stepwise
Clients == 1..NumClients

\* A goroutine calls New(client, db, table), which starts with getManager.
NewCall(p) ==
    /\ gpc[p] = "idle"
    /\ \E client \in Clients : gloc' = [gloc EXCEPT ![p] = [NoGLoc EXCEPT !.client = client]]
    /\ gpc' = [gpc EXCEPT ![p] = "load"]
    /\ UNCHANGED << manager, managerMu, mgrs, callVars, connVars, concVars >>

\* i := manager.Load(); if i == nil { ... } return i.(*resources.Manager), nil
GetManagerLoad(p) ==
    /\ gpc[p] = "load"
    /\ IF manager = 0
       THEN /\ gpc' = [gpc EXCEPT ![p] = "lock"]
            /\ UNCHANGED gloc
       ELSE /\ gpc' = [gpc EXCEPT ![p] = "fsnew"]
            /\ gloc' = [gloc EXCEPT ![p].mgr = manager]
    /\ UNCHANGED << manager, managerMu, mgrs, callVars, connVars, concVars >>

\* managerMu.Lock()
GetManagerLock(p) ==
    /\ gpc[p] = "lock"
    /\ managerMu = 0
    /\ managerMu' = p
    /\ gpc' = [gpc EXCEPT ![p] = "new"]
    /\ UNCHANGED << manager, mgrs, gloc, callVars, connVars, concVars >>

\* mgr, err := resources.New(client); if err != nil { return nil, err }
GetManagerNew(p) ==
    /\ gpc[p] = "new"
    /\ \/ /\ Len(mgrs) < MaxManagers
          /\ mgrs' = Append(mgrs, gloc[p].client)
          /\ gloc' = [gloc EXCEPT ![p].mgr = Len(mgrs) + 1]
          /\ gpc' = [gpc EXCEPT ![p] = "store"]
       \/ /\ gloc' = [gloc EXCEPT ![p].err = ErrMgrNew]
          /\ gpc' = [gpc EXCEPT ![p] = "unlock"]
          /\ UNCHANGED mgrs
    /\ UNCHANGED << manager, managerMu, callVars, connVars, concVars >>

\* manager.Store(mgr)
GetManagerStore(p) ==
    /\ gpc[p] = "store"
    /\ manager' = gloc[p].mgr
    /\ gpc' = [gpc EXCEPT ![p] = "unlock"]
    /\ UNCHANGED << managerMu, mgrs, gloc, callVars, connVars, concVars >>

\* The deferred managerMu.Unlock(), as getManager returns to New.
GetManagerUnlock(p) ==
    /\ gpc[p] = "unlock"
    /\ managerMu' = 0
    /\ gpc' = [gpc EXCEPT ![p] = IF gloc[p].err # NoError THEN "done" ELSE "fsnew"]
    /\ UNCHANGED << manager, mgrs, gloc, callVars, connVars, concVars >>

\* fs, err := filesystem.New(db, table, mgr); New returns the Ingestion or err.
NewFinish(p) ==
    /\ gpc[p] = "fsnew"
    /\ \E ok \in BOOLEAN :
         gloc' = [gloc EXCEPT ![p].err = IF ok THEN NoError ELSE ErrStaging]
    /\ gpc' = [gpc EXCEPT ![p] = "done"]
    /\ UNCHANGED << manager, managerMu, mgrs, callVars, connVars, concVars >>

\* The caller of New takes what it returned.
NewReturn(p) ==
    /\ gpc[p] = "done"
    /\ gpc' = [gpc EXCEPT ![p] = "idle"]
    /\ gloc' = [gloc EXCEPT ![p] = NoGLoc]
    /\ UNCHANGED << manager, managerMu, mgrs, callVars, connVars, concVars >>

NextManager ==
    \E p \in Procs :
        \/ NewCall(p)
        \/ GetManagerLoad(p)
        \/ GetManagerLock(p)
        \/ GetManagerNew(p)
        \/ GetManagerStore(p)
        \/ GetManagerUnlock(p)
        \/ NewFinish(p)
        \/ NewReturn(p)

SpecManager == Init /\ [][NextManager]_vars

\* ------------------------------------------------ streaming calls, stepwise
ConcSizes == {StreamCeiling - 1, StreamCeiling}
ConcPaths == {"local.csv", "https://account.blob.core.windows.net/container/blob.csv"}

\* A goroutine calls Stream on the Ingestion.
StreamCall(p) ==
    /\ spc[p] = "idle"
    /\ \E ctxDone \in BOOLEAN, size \in ConcSizes :
         sloc' = [sloc EXCEPT ![p] = [NoSLoc EXCEPT !.entry = "Ingestion.Stream",
                                                      !.ctxDone = ctxDone,
                                                      !.size = size]]
    /\ spc' = [spc EXCEPT ![p] = "lock"]
    /\ UNCHANGED << connMu, callVars, connVars, mgrVars >>

\* i.connMu.Lock()
GetStreamConnLock(p) ==
    /\ spc[p] = "lock"
    /\ connMu = 0
    /\ connMu' = p
    /\ spc' = [spc EXCEPT ![p] = "conn"]
    /\ UNCHANGED << sloc, callVars, connVars, mgrVars >>

\* The body of getStreamConn, run holding connMu.
GetStreamConnBody(p) ==
    /\ spc[p] = "conn"
    /\ \E newOK \in BOOLEAN :
         LET g == GetStreamConn(streamConn, newOK, conns + 1)
         IN /\ g.built => conns < MaxConns
            /\ streamConn' = g.streamConn
            /\ conns' = IF g.built THEN conns + 1 ELSE conns
            /\ sloc' = [sloc EXCEPT ![p].c = g.conn, ![p].err = g.err]
    /\ spc' = [spc EXCEPT ![p] = "unlock"]
    /\ UNCHANGED << connMu, sConn, callVars, mgrVars >>

\* Mutant of GetStreamConnUnlock: Stream goes on without releasing connMu.
GetStreamConnUnlock_Keep(p) ==
    /\ spc[p] = "unlock"
    /\ spc' = [spc EXCEPT ![p] = IF sloc[p].err # NoError THEN "done" ELSE "write"]
    /\ UNCHANGED << connMu, sloc, callVars, connVars, mgrVars >>

\* The deferred i.connMu.Unlock(), as getStreamConn returns to Stream.
GetStreamConnUnlock(p) ==
    /\ spc[p] = "unlock"
    /\ connMu' = 0
    /\ spc' = [spc EXCEPT ![p] = IF sloc[p].err # NoError THEN "done" ELSE "write"]
    /\ UNCHANGED << sloc, callVars, connVars, mgrVars >>

\* Stream builds its property set and streamImpl starts c.Write.
StreamWrite(p) ==
    /\ spc[p] = "write"
    /\ sloc' = [sloc EXCEPT ![p].err =
                  StreamWith([conn |-> sloc[p].c, err |-> NoError],
                             sloc[p].ctxDone, sloc[p].size, "CSV", "").err]
    /\ spc' = [spc EXCEPT ![p] = "writing"]
    /\ UNCHANGED << connMu, callVars, connVars, mgrVars >>

\* A goroutine calls FromFile or FromReader on the StreamingIngestion; the
\* call runs up to its c.Write, or returns before it.
StreamingCall(p) ==
    /\ spc[p] = "idle"
    /\ \E ctxDone \in BOOLEAN, size \in ConcSizes, fPath \in ConcPaths,
          entry \in {"StreamingIngestion.FromFile", "StreamingIngestion.FromReader"} :
         LET out == IF entry = "StreamingIngestion.FromFile"
                    THEN StreamingFromFile(sConn, ctxDone, fPath, << >>, size, TRUE)
                    ELSE StreamingFromReader(sConn, ctxDone, << >>, size)
         IN /\ sloc' = [sloc EXCEPT ![p] =
                          [entry |-> entry, ctxDone |-> ctxDone, size |-> size,
                           c |-> IF out.writes = << >> THEN 0 ELSE out.writes[1].conn,
                           err |-> out.err]]
            /\ spc' = [spc EXCEPT ![p] = IF out.writes = << >> THEN "done" ELSE "writing"]
    /\ UNCHANGED << connMu, callVars, connVars, mgrVars >>

\* c.Write returns; streamImpl and the entry point return to the caller.
WriteEnd(p) ==
    /\ spc[p] = "writing"
    /\ spc' = [spc EXCEPT ![p] = "done"]
    /\ UNCHANGED << sloc, connMu, callVars, connVars, mgrVars >>

\* The caller takes what the call returned.
CallReturn(p) ==
    /\ spc[p] = "done"
    /\ spc' = [spc EXCEPT ![p] = "idle"]
    /\ sloc' = [sloc EXCEPT ![p] = NoSLoc]
    /\ UNCHANGED << connMu, callVars, connVars, mgrVars >>

NextConn ==
    \E p \in Procs :
        \/ StreamCall(p)
        \/ GetStreamConnLock(p)
        \/ GetStreamConnBody(p)
        \/ GetStreamConnUnlock(p)
        \/ StreamWrite(p)
        \/ StreamingCall(p)
        \/ WriteEnd(p)
        \/ CallReturn(p)

SpecConn == Init /\ [][NextConn]_vars

\* ================================================================== claims
Returned(entries) == ret # << >> /\ ret[1].entry \in entries

QueuedEntries == {"Ingestion.FromFile", "Ingestion.FromReader"}
StreamingEntries == {"StreamingIngestion.FromFile", "StreamingIngestion.FromReader"}

Range(seq) == {seq[k] : k \in DOMAIN seq}

\* The positions of the options called `name`.
Named(options, name) == {k \in DOMAIN options : options[k].name = name}

Last(ks) == CHOOSE k \in ks : \A j \in ks : j <= k

\* The Source.ID the caller supplied through options, uuid.Nil if none.
SuppliedID(options) ==
    IF Named(options, "SourceID") = {} THEN UUIDNil
    ELSE options[Last(Named(options, "SourceID"))].id

\* The caller asked, through options, for status reporting to a table.
AsksStatusTable(options) ==
    /\ Named(options, "Report") # {}
    /\ options[Last(Named(options, "Report"))].level # "None"
    /\ options[Last(Named(options, "Report"))].method
         \in {"ReportStatusToTable", "ReportStatusToQueueAndTable"}

IsCancellation(err) == err # NoError /\ Cause(err).kind = "Canceled"

Holding(p) == gpc[p] \in {"fsnew", "done"} /\ gloc[p].mgr # 0

\* C1: however first calls to getManager with one client interleave, at most
\* one Manager is constructed from that client and all callers hold the same
\* Manager.
C1_SingleManager ==
    /\ \A c \in Clients : Cardinality({m \in DOMAIN mgrs : mgrs[m] = c}) <= 1
    /\ \A p, q \in Procs :
         (Holding(p) /\ Holding(q) /\ gloc[p].client = gloc[q].client) =>
             gloc[p].mgr = gloc[q].mgr

InWrite(p) == spc[p] \in {"write", "writing"}

\* C2: getStreamConn constructs at most one connection for the Ingestion, and
\* exactly one once a Stream call has a connection; every Stream call writes
\* over the stored connection, and every StreamingIngestion call over the one
\* its constructor built.
C2_OneConnection ==
    /\ conns - 1 <= 1
    /\ \A p \in Procs :
         (InWrite(p) /\ sloc[p].entry = "Ingestion.Stream") =>
             /\ conns - 1 = 1
             /\ streamConn # 0
             /\ sloc[p].c = streamConn
    /\ \A p \in Procs :
         (InWrite(p) /\ sloc[p].entry \in StreamingEntries) => sloc[p].c = sConn

C2_Witness ==
    /\ \A p \in Procs : spc[p] = "writing"
    /\ sloc[1].entry = "Ingestion.Stream"
    /\ sloc[2].entry = "Ingestion.Stream"
    /\ sloc[1].c = sloc[2].c

\* C3: streaming FromFile hands the payload to the write uncompressed when
\* discovery finds a supported compression, and gzip-wrapped when discovery
\* says None or Unknown; streaming FromReader always hands it gzip-wrapped.
C3_CompressionDecision ==
    /\ (Returned({"StreamingIngestion.FromFile"}) /\ ret[1].out.writes # << >>) =>
         (ret[1].out.writes[1].gzip
            <=> CompressionDiscovery(ret[1].path) \in {"CTNone", "CTUnknown"})
    /\ (Returned({"StreamingIngestion.FromReader"}) /\ ret[1].out.writes # << >>) =>
         ret[1].out.writes[1].gzip

\* C4: queued FromReader whose options set no format returns no Result and an
\* error and stages nothing; once preparation has passed, the error is the
\* missing-format argument error.
C4_ReaderWithoutFormatFails ==
    (Returned({"Ingestion.FromReader"}) /\ Named(ret[1].options, "FileFormat") = {}) =>
        /\ ret[1].out.result = NilResult
        /\ ret[1].out.err # NoError
        /\ ret[1].out.staged = << >>
        /\ ret[1].out.prep = "ok" => ret[1].out.err = ErrNoFormat

C4_Witness ==
    /\ Returned({"Ingestion.FromReader"})
    /\ ret[1].options # << >>
    /\ Named(ret[1].options, "FileFormat") = {}
    /\ ret[1].out.prep = "ok"
    /\ ret[1].out.err = ErrNoFormat

\* C5: the property set a queued call hands to staging with ReportLevel # None
\* has a non-nil Source.ID, the caller's if one was supplied; with a report
\* method that targets a status table its PartitionKey is that ID as a string
\* and its RowKey the nil UUID's string; the Result stores the same set.
C5_ReportingHasSourceID ==
    Returned(QueuedEntries) =>
        \A k \in DOMAIN ret[1].out.staged :
            LET p == ret[1].out.staged[k].props
            IN /\ ret[1].out.result # NilResult => ret[1].out.result[1].props = p
               /\ p.ReportLevel # "None" =>
                    /\ p.SourceID # UUIDNil
                    /\ SuppliedID(ret[1].options) # UUIDNil =>
                         p.SourceID = SuppliedID(ret[1].options)
                    /\ p.ReportMethod \in {"ReportStatusToTable",
                                           "ReportStatusToQueueAndTable"} =>
                         /\ p.PartitionKey = UUIDString(p.SourceID)
                         /\ p.RowKey = "00000000-0000-0000-0000-000000000000"

C5_Witness ==
    /\ Returned({"Ingestion.FromFile"})
    /\ ret[1].out.result # NilResult
    /\ SuppliedID(ret[1].options) = UUIDNil
    /\ ret[1].out.staged[1].props.ReportLevel = "FailureAndSuccess"
    /\ ret[1].out.staged[1].props.ReportMethod = "ReportStatusToTable"
    /\ ret[1].out.staged[1].props.PartitionKey = "00000000-0000-4000-8000-000000000002"

\* C6: a queued call that asks for status reporting to a table while the
\* snapshot holds no status table returns no Result and an error and stages
\* nothing; when Resources() answered, the error is the configuration error.
C6_NoStatusTableFails ==
    (Returned(QueuedEntries) /\ AsksStatusTable(ret[1].options) /\ ret[1].nTables = 0) =>
        /\ ret[1].out.result = NilResult
        /\ ret[1].out.err # NoError
        /\ ret[1].out.staged = << >>
        /\ Did("Resources", TRUE) \in Range(ret[1].out.trace) =>
             ret[1].out.err = ErrNoStatusTable

C6_Witness ==
    /\ Returned({"Ingestion.FromReader"})
    /\ AsksStatusTable(ret[1].options)
    /\ ret[1].nTables = 0
    /\ Did("Resources", TRUE) \in Range(ret[1].out.trace)
    /\ ret[1].out.err = ErrNoStatusTable

\* C7 as stated: every call made with a cancelled context returns the
\* cancellation error and no Result.
C7_CancelledReturnsCancellation ==
    (ret # << >> /\ ret[1].ctxDone) =>
        /\ IsCancellation(ret[1].out.err)
        /\ ret[1].out.result = NilResult

\* C7 amended: a call made with a cancelled context returns no Result and an
\* error; the error is the cancellation error whenever the call got as far as
\* a staging call or a connection write.
C7_CancelledNeverSucceeds ==
    (ret # << >> /\ ret[1].ctxDone) =>
        /\ ret[1].out.result = NilResult
        /\ ret[1].out.err # NoError
        /\ (ret[1].out.staged # << >> \/ ret[1].out.writes # << >>) =>
             IsCancellation(ret[1].out.err)

C7_Witness ==
    /\ Returned({"StreamingIngestion.FromReader"})
    /\ ret[1].ctxDone
    /\ ret[1].out.writes # << >>
    /\ IsCancellation(ret[1].out.err)

\* C8: Stream makes the write whatever the payload size; with a connection and
\* a live context it returns nil exactly for a payload below the ceiling, and
\* at or above it returns the write's rejection error, intact under the
\* operation tag.
C8_StreamCeiling ==
    Returned({"Ingestion.Stream"}) =>
        /\ ret[1].out.err = NoError => ret[1].size < StreamCeiling
        /\ Did("getStreamConn", TRUE) \in Range(ret[1].out.trace) =>
             /\ Len(ret[1].out.writes) = 1
             /\ ret[1].out.writes[1].size = ret[1].size
             /\ ~ret[1].ctxDone =>
                  (ret[1].out.err = NoError <=> ret[1].size < StreamCeiling)
             /\ (~ret[1].ctxDone /\ ret[1].size >= StreamCeiling) =>
                  /\ ret[1].out.err # NoError
                  /\ Head(ret[1].out.err).op = "OpIngestStream"
                  /\ Tail(ret[1].out.err) = ret[1].out.writes[1].err
                  /\ Tail(ret[1].out.err) = ErrTooLarge

C8_Witness ==
    /\ Returned({"Ingestion.Stream"})
    /\ ~ret[1].ctxDone
    /\ ret[1].size = StreamCeiling
    /\ Tail(ret[1].out.err) = ErrTooLarge

\* C9: a streaming call returns a Result exactly when its connection write
\* succeeded; the Result has status "Success", is not marked queued and holds
\* the property set of the write; without a Result the call returns an error.
\* Stream, which returns only an error, returns nil exactly when the write
\* succeeded.
C9_ResultIffWriteSucceeded ==
    /\ Returned(StreamingEntries) =>
         /\ ret[1].out.result # NilResult <=>
              (ret[1].out.writes # << >> /\ ret[1].out.writes[1].err = NoError)
         /\ ret[1].out.result # NilResult =>
              /\ ret[1].out.err = NoError
              /\ ret[1].out.result[1].Status = "Success"
              /\ ~ret[1].out.result[1].queued
              /\ ret[1].out.result[1].props = ret[1].out.writes[1].props
         /\ ret[1].out.result = NilResult => ret[1].out.err # NoError
    /\ (Returned({"Ingestion.Stream"}) /\ ret[1].out.writes # << >>) =>
         (ret[1].out.err = NoError <=> ret[1].out.writes[1].err = NoError)

C9_Witness ==
    /\ Returned({"StreamingIngestion.FromFile"})
    /\ ret[1].out.result # NilResult
    /\ ret[1].out.result[1].Status = "Success"
    /\ ret[1].out.result[1].props.ClientRequestId = "req-1"

HandedProps(out) ==
    {out.staged[k].props : k \in DOMAIN out.staged}
    \cup {out.writes[k].props : k \in DOMAIN out.writes}

\* C11: the options are run in call order, each at most once; a run outside
\* the option's modes is the last one, its error is the call's error, and the
\* call returns no Result and makes no staging call and no write; when no run
\* fails the loop runs every option, and the property set handed on carries
\* the options' values, the last of a kind winning, and nothing else.
C11_OptionsInOrderFailFast ==
    ret # << >> =>
        /\ Len(ret[1].out.runs) <= Len(ret[1].options)
        /\ \A k \in DOMAIN ret[1].out.runs :
             /\ ret[1].out.runs[k].opt = ret[1].options[k]
             /\ ~OptionSupports(ret[1].out.runs[k].opt, ret[1].out.runs[k].flags) =>
                  /\ k = Len(ret[1].out.runs)
                  /\ ret[1].out.err = ErrOption(ret[1].options[k].name)
                  /\ ret[1].out.result = NilResult
                  /\ ret[1].out.staged = << >>
                  /\ ret[1].out.writes = << >>
        /\ ( /\ ret[1].out.runs # << >>
             /\ \A k \in DOMAIN ret[1].out.runs :
                  OptionSupports(ret[1].out.runs[k].opt, ret[1].out.runs[k].flags) ) =>
             Len(ret[1].out.runs) = Len(ret[1].options)
        /\ Returned(QueuedEntries \cup StreamingEntries) =>
             \A p \in HandedProps(ret[1].out) :
                 /\ p.Format = IF Named(ret[1].options, "FileFormat") = {}
                               THEN "DFUnknown"
                               ELSE ret[1].options[Last(Named(ret[1].options, "FileFormat"))].fmt
                 /\ p.ClientRequestId = IF Named(ret[1].options, "ClientRequestId") = {}
                                        THEN ""
                                        ELSE "req-1"
                 /\ SuppliedID(ret[1].options) # UUIDNil =>
                      p.SourceID = SuppliedID(ret[1].options)

C11_Witness ==
    /\ Returned({"Ingestion.FromFile"})
    /\ Len(ret[1].options) = 2
    /\ Len(ret[1].out.runs) = 1
    /\ ret[1].out.err = ErrOption("ClientRequestId")
    /\ ret[1].out.result = NilResult

\* C12: getManager is keyed by the client: every caller of New holds a Manager
\* that was constructed from the client it passed.
C12_ManagerOfOwnClient ==
    \A p \in Procs : Holding(p) => mgrs[gloc[p].mgr] = gloc[p].client

\* C13: every Stream call hands its connection write the payload wrapped in
\* the gzip encoder.
C13_StreamCompresses ==
    Returned({"Ingestion.Stream"}) =>
        \A k \in DOMAIN ret[1].out.writes : ret[1].out.writes[k].gzip

\* C14: in the property set a queued call hands to staging, TableEntryRef is
\* populated (first status table's URL, the source id as PartitionKey, the nil
\* UUID as RowKey) only when the options ask for a report to a status table
\* and the snapshot has a status table; otherwise it is as the options left
\* it, which is empty.
C14_TableEntryRefOnlyForStatusTable ==
    Returned(QueuedEntries) =>
        \A k \in DOMAIN ret[1].out.staged :
            IF AsksStatusTable(ret[1].options)
            THEN /\ ret[1].nTables >= 1
                 /\ TargetsStatusTable(ret[1].out.staged[k].props)
                 /\ ret[1].out.staged[k].props.TableConnectionString = TableURL(0)
                 /\ ret[1].out.staged[k].props.PartitionKey
                      = UUIDString(ret[1].out.staged[k].props.SourceID)
                 /\ ret[1].out.staged[k].props.RowKey = UUIDString(UUIDNil)
            ELSE /\ ret[1].out.staged[k].props.TableConnectionString
                      = ZeroProps.TableConnectionString
                 /\ ret[1].out.staged[k].props.PartitionKey = ZeroProps.PartitionKey
                 /\ ret[1].out.staged[k].props.RowKey = ZeroProps.RowKey

C14_Witness ==
    /\ Returned({"Ingestion.FromReader"})
    /\ ret[1].nTables = 1
    /\ ret[1].out.staged # << >>
    /\ ret[1].out.staged[1].props.ReportMethod = "ReportStatusToQueueAndTable"
    /\ ret[1].out.staged[1].props.TableConnectionString = TableURL(0)
    /\ ret[1].out.staged[1].props.RowKey = UUIDString(UUIDNil)

\* C15: a queued call returns a Result only when its staging call (Local, Blob
\* or Reader) was made and returned no error, and that Result is marked
\* queued; when staging returns an error the call returns that error and no
\* Result.
C15_QueuedOnlyAfterStaging ==
    Returned(QueuedEntries) =>
        /\ ret[1].out.result # NilResult =>
             /\ ret[1].out.result[1].queued
             /\ ret[1].out.result[1].Status \in {"Queued", "Pending"}
             /\ Len(ret[1].out.staged) = 1
             /\ ret[1].out.staged[1].err = NoError
             /\ ret[1].out.err = NoError
        /\ \A k \in DOMAIN ret[1].out.staged :
             /\ ret[1].out.staged[k].op
                  = IF ret[1].entry = "Ingestion.FromReader" THEN "Reader"
                    ELSE IF IsLocalPath(ret[1].path).local THEN "Local" ELSE "Blob"
             /\ ret[1].out.staged[k].err # NoError =>
                  /\ ret[1].out.result = NilResult
                  /\ ret[1].out.err = ret[1].out.staged[k].err

C15_Witness ==
    /\ Returned({"Ingestion.FromFile"})
    /\ ~ret[1].ctxDone
    /\ Len(ret[1].out.staged) = 1
    /\ ret[1].out.staged[1].op = "Blob"
    /\ ret[1].out.staged[1].err = ErrStaging
    /\ ret[1].out.result = NilResult

\* C17: one entry-point call makes at most one staging call and at most one
\* connection write; when that call fails the entry point returns no Result
\* and an error that carries the failure (the staging error itself, the write
\* error under the operation tag).
C17_NoRetries ==
    ret # << >> =>
        /\ Len(ret[1].out.staged) <= 1
        /\ Len(ret[1].out.writes) <= 1
        /\ Len(ret[1].out.staged) + Len(ret[1].out.writes) <= 1
        /\ \A k \in DOMAIN ret[1].out.staged :
             ret[1].out.staged[k].err # NoError =>
                 /\ ret[1].out.err = ret[1].out.staged[k].err
                 /\ ret[1].out.result = NilResult
        /\ \A k \in DOMAIN ret[1].out.writes :
             ret[1].out.writes[k].err # NoError =>
                 /\ ret[1].out.err # NoError
                 /\ Tail(ret[1].out.err) = ret[1].out.writes[k].err
                 /\ ret[1].out.result = NilResult

C17_Witness ==
    /\ Returned({"StreamingIngestion.FromFile"})
    /\ ~ret[1].ctxDone
    /\ Len(ret[1].out.writes) = 1
    /\ ret[1].out.writes[1].err = ErrTooLarge
    /\ ret[1].out.err = E("OpIngestStream", "KClientArgs", ErrTooLarge)

\* C16: connMu is held only inside getStreamConn, by a Stream call that is
\* looking up or constructing the connection or is about to unlock; no call
\* that has started its connection write holds it, so a call can take the
\* mutex and obtain the connection while another is inside c.Write.
C16_MutexReleasedBeforeWrite ==
    /\ connMu \in {0} \cup Procs
    /\ \A p \in Procs :
         /\ connMu = p => /\ spc[p] \in {"conn", "unlock"}
                          /\ sloc[p].entry = "Ingestion.Stream"
         /\ spc[p] \in {"conn", "unlock"} => connMu = p
         /\ InWrite(p) => connMu # p

C16_Witness ==
    /\ spc[1] = "writing"
    /\ sloc[1].entry = "Ingestion.Stream"
    /\ spc[2] = "unlock"
    /\ connMu = 2
    /\ sloc[2].err = NoError
    /\ sloc[2].c = sloc[1].c

\* One step of a Stream call p, as C18 constrains it.
C18_Step(p) ==
    /\ (spc[p] = "conn" /\ spc'[p] = "unlock" /\ sloc'[p].err # NoError) =>
          /\ streamConn = 0
          /\ streamConn' = 0
          /\ sloc'[p].err = ErrConnNew
          /\ sloc'[p].c = 0
    /\ (spc[p] = "unlock" /\ sloc[p].err # NoError /\ spc'[p] # spc[p]) =>
          /\ spc'[p] = "done"
          /\ connMu' = 0
          /\ sloc'[p] = sloc[p]
    /\ (spc'[p] = "write" /\ spc[p] # "write") => sloc[p].err = NoError /\ sloc[p].c # 0

\* C18: when conn.New fails in getStreamConn the call leaves streamConn unset,
\* releases connMu and returns the construction error without starting a
\* write; and a stored streamConn is never replaced or reset by any step.
C18_FailedConstructionLeavesUnset ==
    [][ /\ streamConn # 0 => streamConn' = streamConn
        /\ \A p \in Procs : C18_Step(p) ]_vars

C18_Witness ==
    /\ spc[1] = "done"
    /\ sloc[1].entry = "Ingestion.Stream"
    /\ sloc[1].err = ErrConnNew
    /\ sloc[1].c = 0
    /\ connMu = 0
    /\ spc[2] = "writing"
    /\ sloc[2].entry = "Ingestion.Stream"
    /\ streamConn # 0
    /\ sloc[2].c = streamConn

\* C19: every option run gets exactly one source flag and exactly one path
\* flag: queued FromFile passes isFile for a local path and isBlob otherwise,
\* both FromReader pass isReader only, streaming FromFile passes isFile only;
\* queued entry points pass queued, streaming ones pass streaming.
C19_RunFlags ==
    ret # << >> =>
        \A k \in DOMAIN ret[1].out.runs :
            /\ Cardinality({x \in {"isFile", "isBlob", "isReader"} :
                              ret[1].out.runs[k].flags[x]}) = 1
            /\ Cardinality({x \in {"queued", "streaming"} :
                              ret[1].out.runs[k].flags[x]}) = 1
            /\ ret[1].out.runs[k].flags.queued = (ret[1].entry \in QueuedEntries)
            /\ ret[1].out.runs[k].flags.streaming = (ret[1].entry \in StreamingEntries)
            /\ ret[1].out.runs[k].flags.streaming => ~ret[1].out.runs[k].flags.isBlob
            /\ ret[1].out.runs[k].flags.isReader
                 = (ret[1].entry \in {"Ingestion.FromReader",
                                      "StreamingIngestion.FromReader"})
            /\ ret[1].entry = "Ingestion.FromFile" =>
                 /\ ret[1].out.runs[k].flags.isFile = IsLocalPath(ret[1].path).local
                 /\ ret[1].out.runs[k].flags.isBlob = ~IsLocalPath(ret[1].path).local
            /\ ret[1].entry = "StreamingIngestion.FromFile" =>
                 ret[1].out.runs[k].flags.isFile

C19_Witness ==
    /\ Returned({"Ingestion.FromFile"})
    /\ ret[1].path \in BlobPaths
    /\ Len(ret[1].out.runs) = 2
    /\ ret[1].out.runs[2].flags.isBlob
    /\ ret[1].out.runs[2].flags.queued
    /\ ret[1].out.err = NoError

====
